---- MODULE Spec2Model ----
(***************************************************************************)
(* Page assembly of newline-iwb-converter: the in-process engine           *)
(* (iwb2pdf.combine_svgs_to_pdf, ReportLab canvas) and the Inkscape engine *)
(* (InkscapeEngine.find_inkscape / is_available / combine_svgs_to_pdf).    *)
(*                                                                         *)
(* A page file page_<N>.svg is represented by the decimal digits of <N>,   *)
(* so that int(x.stem.split("_")[1]) is a real conversion and the order of *)
(* the names differs from the order of the numbers.  Drawing widths and    *)
(* heights are even integers, so that the true division by 2 of the        *)
(* centring offsets is exact.                                              *)
(***************************************************************************)
EXTENDS Integers, Sequences, FiniteSets, TLC

\* ---------------------------------------------------------------- bounds
MaxTens == 1
MaxDim == 2

\* ------------------------------------------------------------ page files
RECURSIVE Digits(_)
Digits(n) == IF n < 10 THEN <<n>> ELSE Digits(n \div 10) \o <<n % 10>>

PageNumbers == {1, 2} \cup {10 * k : k \in 1..MaxTens}
PageNames == {Digits(n) : n \in PageNumbers}

\* int(x.stem.split("_")[1])
RECURSIVE int(_)
int(d) == IF Len(d) = 0 THEN 0 ELSE 10 * int(SubSeq(d, 1, Len(d) - 1)) + d[Len(d)]

\* the order of the file names themselves (names of at most three digits)
LexKey(d) ==
    LET pad(i) == IF i <= Len(d) THEN d[i] ELSE 0
    IN  (100 * pad(1) + 10 * pad(2) + pad(3)) * 10 + Len(d)

SortKey(x) == int(x)

\* sorted(Path(svg_dir).glob("page_*.svg"), key=...)
RECURSIVE sorted(_)
sorted(S) ==
    IF S = {} THEN <<>>
    ELSE LET m == CHOOSE x \in S : \A y \in S : SortKey(x) <= SortKey(y)
         IN  <<m>> \o sorted(S \ {m})

\* ---------------------------------------------------------- value spaces
None == [kind |-> "None"]
Drawing(w, h) == [kind |-> "Drawing", width |-> w, height |-> h]
DimValues == {2 * k : k \in 1..MaxDim}
Drawings == {Drawing(w, h) : w \in DimValues, h \in DimValues}

Absent == [kind |-> "absent"]
OldFile == [kind |-> "old"]
Partial == [kind |-> "partial"]
Pdf(pages) == [kind |-> "pdf", pages |-> pages]

NoPath == "None"
Max(a, b) == IF a >= b THEN a ELSE b

VARIABLES
    engine,              \* which combine_svgs_to_pdf is running
    svg_dir,             \* names of the page_*.svg files in svg_dir
    uniform_size,        \* the caller's sizing mode
    pc,                  \* position in the running call
    svg_files,
    drawings,
    max_width, max_height,
    uniform_page_width, uniform_page_height,
    idx,                 \* position of the running loop (0-based)
    pdf_canvas,          \* ReportLab canvas: pages shown, pending code, page size
    output_pdf,          \* the file at the output path
    output_before,       \* the file at the output path when the call began
    exit_status,         \* "none", 0 (returned), 1 (sys.exit(1)), "raised"
    log,                 \* warnings and errors emitted
    platform,            \* sys.platform
    which_result,        \* what shutil.which("inkscape") yields now
    existing,            \* the paths that exist now
    self_inkscape_path,  \* _inkscape_path of each engine instance
    last_call,           \* the last find_inkscape / is_available call
    call_parity,         \* flips at every find_inkscape / is_available call
    inkscape_path,       \* local of InkscapeEngine.combine_svgs_to_pdf
    pdf_files,
    temp_dir,            \* "none", "exists", "removed"
    scratch,             \* per-page PDFs in temp_dir: name -> document
    invocations,         \* the commands passed to subprocess.run
    merge_attempted

runVars == <<engine, svg_dir, uniform_size, pc, svg_files, drawings, max_width,
             max_height, uniform_page_width, uniform_page_height, idx,
             pdf_canvas, output_pdf, output_before, exit_status, log>>
envVars == <<platform, which_result, existing>>
lookupVars == <<self_inkscape_path, last_call, call_parity>>
inkVars == <<inkscape_path, pdf_files, temp_dir, scratch, invocations,
             merge_attempted>>
vars == <<runVars, envVars, lookupVars, inkVars>>

\* ------------------------------------------------- InkscapeEngine lookup
Instances == {"e1", "e2"}
Platforms == {"win32", "darwin", "linux", "freebsd"}
UserPath == "/home/user/bin/inkscape"
WhichResults == {NoPath, UserPath, "/usr/bin/inkscape"}

common_paths(p) ==
    IF p = "win32" THEN
        << "C:\\Program Files\\Inkscape\\bin\\inkscape.exe",
           "C:\\Program Files (x86)\\Inkscape\\bin\\inkscape.exe",
           "C:\\Program Files\\Inkscape\\inkscape.exe",
           "C:\\Program Files (x86)\\Inkscape\\inkscape.exe" >>
    ELSE IF p = "darwin" THEN
        << "/Applications/Inkscape.app/Contents/MacOS/inkscape",
           "/usr/local/bin/inkscape",
           "/opt/homebrew/bin/inkscape" >>
    ELSE IF p = "linux" THEN
        << "/usr/bin/inkscape", "/usr/local/bin/inkscape", "/snap/bin/inkscape" >>
    ELSE << >>

Range(s) == {s[i] : i \in 1..Len(s)}

\* for path in common_paths: if Path(path).exists(): return path
FirstExisting(paths, exists) ==
    IF \E i \in 1..Len(paths) : paths[i] \in exists
    THEN paths[CHOOSE i \in 1..Len(paths) :
                 /\ paths[i] \in exists
                 /\ \A j \in 1..(i - 1) : paths[j] \notin exists]
    ELSE NoPath

\* if self._inkscape_path: return self._inkscape_path
Cached(cache) == cache # NoPath

\* variant: the cached location is not consulted
find_inkscape_uncached(cache, which, exists, p) ==
    IF which # NoPath
    THEN [result |-> which, cache |-> which, probed |-> TRUE]
    ELSE LET found == FirstExisting(common_paths(p), exists)
         IN  [result |-> found, cache |-> found, probed |-> TRUE]

\* find_inkscape on an instance whose _inkscape_path is cache: the value
\* returned, the new _inkscape_path and whether the environment was probed
find_inkscape(cache, which, exists, p) ==
    IF Cached(cache)
    THEN [result |-> cache, cache |-> cache, probed |-> FALSE]
    ELSE IF which # NoPath
    THEN [result |-> which, cache |-> which, probed |-> TRUE]
    ELSE LET found == FirstExisting(common_paths(p), exists)
         IN  [result |-> found, cache |-> found, probed |-> TRUE]

\* self.find_inkscape() is not None
is_available(found) == found # NoPath

NoCall == [op |-> "none", self |-> "e1", found |-> NoPath,
           available |-> FALSE, probed |-> FALSE]

FindInkscape(i) ==
    LET r == find_inkscape(self_inkscape_path[i], which_result, existing, platform)
    IN  /\ self_inkscape_path' = [self_inkscape_path EXCEPT ![i] = r.cache]
        /\ last_call' = [op |-> "find_inkscape", self |-> i, found |-> r.result,
                         available |-> FALSE, probed |-> r.probed]
        /\ call_parity' = 1 - call_parity
        /\ UNCHANGED <<runVars, envVars, inkVars>>

IsAvailable(i) ==
    LET r == find_inkscape(self_inkscape_path[i], which_result, existing, platform)
    IN  /\ self_inkscape_path' = [self_inkscape_path EXCEPT ![i] = r.cache]
        /\ last_call' = [op |-> "is_available", self |-> i, found |-> r.result,
                         available |-> is_available(r.result), probed |-> r.probed]
        /\ call_parity' = 1 - call_parity
        /\ UNCHANGED <<runVars, envVars, inkVars>>

\* the tool appears on or disappears from the search path
PathChange ==
    /\ \E w \in WhichResults : w # which_result /\ which_result' = w
    /\ UNCHANGED <<runVars, platform, existing, lookupVars, inkVars>>

\* the tool appears at or disappears from a well-known location
InstallChange ==
    /\ \E q \in Range(common_paths(platform)) :
          existing' = IF q \in existing THEN existing \ {q} ELSE existing \cup {q}
    /\ UNCHANGED <<runVars, platform, which_result, lookupVars, inkVars>>

\* --------------------------------------------------- ReportLab's canvas
\* canvas.Canvas(output_pdf): nothing is written before save()
Canvas == [pages |-> <<>>, code |-> <<>>, pagesize |-> <<595, 842>>]

setPageSize(c, size) == [c EXCEPT !.pagesize = size]

\* saveState(); translate(x, y); renderPDF.draw(drawing, ...); restoreState()
drawAt(c, svg_file, x, y) ==
    [c EXCEPT !.code = Append(@, [file |-> svg_file, x_offset |-> x, y_offset |-> y])]

\* showPage(): closes the current page with the pending code, starts a new one
showPage(c) ==
    [c EXCEPT !.pages = Append(@, [page_width |-> c.pagesize[1],
                                   page_height |-> c.pagesize[2],
                                   content |-> c.code]),
              !.code = <<>>]

\* save(): if len(self._code): self.showPage(); then the document is written
save(c) == IF Len(c.code) > 0 THEN Pdf(showPage(c).pages) ELSE Pdf(c.pages)

\* ----------------------------------------- iwb2pdf.combine_svgs_to_pdf
padding == 10

\* variant: the empty directory is not detected
NoFiles_never(files) == FALSE

\* if not svg_files:
NoFiles(files) == files = <<>>

\* max_width = max(max_width, drawing.width), under if uniform_size
UpdateMax(m, v, uniform) == IF uniform THEN Max(m, v) ELSE m

PageSize(drawing, uniform, upw, uph) ==
    IF uniform THEN <<upw, uph>>
    ELSE <<drawing.width + padding * 2, drawing.height + padding * 2>>

\* variant: the drawing is never centred
Offset_padding(drawing, size, uniform) == <<padding, padding>>

Offset(drawing, size, uniform) ==
    IF uniform
    THEN <<(size[1] - drawing.width) \div 2, (size[2] - drawing.height) \div 2>>
    ELSE <<padding, padding>>

\* variant: a page that failed to parse still gets its showPage()
DrawPage_blank(c, i, n, svg_file, drawing, uniform, upw, uph) ==
    IF drawing = None THEN showPage(c)
    ELSE LET size == PageSize(drawing, uniform, upw, uph)
             off == Offset(drawing, size, uniform)
             c1 == drawAt(setPageSize(c, size), svg_file, off[1], off[2])
         IN  IF i < n - 1 THEN showPage(c1) ELSE c1

\* one iteration of the loop over zip(svg_files, drawings), i = idx
DrawPage(c, i, n, svg_file, drawing, uniform, upw, uph) ==
    IF drawing = None THEN c
    ELSE LET size == PageSize(drawing, uniform, upw, uph)
             off == Offset(drawing, size, uniform)
             c1 == drawAt(setPageSize(c, size), svg_file, off[1], off[2])
         IN  IF i < n - 1 THEN showPage(c1) ELSE c1

IP_ListFiles ==
    /\ engine = "inprocess" /\ pc = "start"
    /\ svg_files' = sorted(svg_dir)
    /\ IF NoFiles(sorted(svg_dir))
       THEN /\ log' = log \cup {"No SVG files found"}
            /\ exit_status' = 1
            /\ pc' = "exited"
       ELSE /\ pc' = "parse"
            /\ UNCHANGED <<log, exit_status>>
    /\ max_width' = 0 /\ max_height' = 0 /\ drawings' = <<>> /\ idx' = 0
    /\ UNCHANGED <<engine, svg_dir, uniform_size, uniform_page_width,
                   uniform_page_height, pdf_canvas, output_pdf, output_before,
                   envVars, lookupVars, inkVars>>

\* first loop: drawing = svg_to_pdf_page(str(svg_file))
IP_Parse ==
    /\ engine = "inprocess" /\ pc = "parse" /\ idx < Len(svg_files)
    /\ \E d \in Drawings \cup {None} :
          /\ drawings' = Append(drawings, d)
          /\ IF d = None
             THEN /\ log' = log \cup {"Skipping"}
                  /\ UNCHANGED <<max_width, max_height>>
             ELSE /\ max_width' = UpdateMax(max_width, d.width, uniform_size)
                  /\ max_height' = UpdateMax(max_height, d.height, uniform_size)
                  /\ UNCHANGED log
    /\ idx' = idx + 1
    /\ UNCHANGED <<engine, svg_dir, uniform_size, pc, svg_files,
                   uniform_page_width, uniform_page_height, pdf_canvas,
                   output_pdf, output_before, exit_status,
                   envVars, lookupVars, inkVars>>

\* uniform page size, then pdf_canvas = canvas.Canvas(output_pdf)
IP_CreateCanvas ==
    /\ engine = "inprocess" /\ pc = "parse" /\ idx = Len(svg_files)
    /\ IF uniform_size
       THEN /\ uniform_page_width' = max_width + padding * 2
            /\ uniform_page_height' = max_height + padding * 2
       ELSE UNCHANGED <<uniform_page_width, uniform_page_height>>
    /\ pdf_canvas' = Canvas
    /\ idx' = 0
    /\ pc' = "draw"
    /\ UNCHANGED <<engine, svg_dir, uniform_size, svg_files, drawings, max_width,
                   max_height, output_pdf, output_before, exit_status, log,
                   envVars, lookupVars, inkVars>>

\* second loop: for idx, (svg_file, drawing) in enumerate(zip(...))
IP_DrawPage ==
    /\ engine = "inprocess" /\ pc = "draw" /\ idx < Len(svg_files)
    /\ pdf_canvas' = DrawPage(pdf_canvas, idx, Len(drawings), svg_files[idx + 1],
                              drawings[idx + 1], uniform_size,
                              uniform_page_width, uniform_page_height)
    /\ idx' = idx + 1
    /\ UNCHANGED <<engine, svg_dir, uniform_size, pc, svg_files, drawings,
                   max_width, max_height, uniform_page_width,
                   uniform_page_height, output_pdf, output_before, exit_status,
                   log, envVars, lookupVars, inkVars>>

\* pdf_canvas.save()
IP_Save ==
    /\ engine = "inprocess" /\ pc = "draw" /\ idx = Len(svg_files)
    /\ output_pdf' = save(pdf_canvas)
    /\ log' = log \cup {"Saved PDF"}
    /\ exit_status' = 0
    /\ pc' = "returned"
    /\ UNCHANGED <<engine, svg_dir, uniform_size, svg_files, drawings, max_width,
                   max_height, uniform_page_width, uniform_page_height, idx,
                   pdf_canvas, output_before, envVars, lookupVars, inkVars>>

\* ------------------------------- InkscapeEngine.combine_svgs_to_pdf
\* variant: the sizing mode is handed to the tool
Cmd_sized(exe, svg_file, temp_pdf, kwargs) ==
    <<exe, "--without-gui", svg_file, temp_pdf, "--export-type=pdf",
      IF kwargs.uniform_size THEN "--uniform-size" ELSE "--independent-size">>

\* cmd = [inkscape_path, "--without-gui", str(svg_file),
\*        f"--export-filename={temp_pdf}", "--export-type=pdf"]
Cmd(exe, svg_file, temp_pdf, kwargs) ==
    <<exe, "--without-gui", svg_file, temp_pdf, "--export-type=pdf">>

\* what subprocess.run(cmd, ..., timeout=60) can do
RunOutcomes(exe) ==
    IF exe = NoPath THEN {"exception"}
    ELSE {"ok", "nonzero", "timeout", "exception"}

\* variant: the return code is not looked at
Succeeded_unchecked(outcome) == outcome \in {"ok", "nonzero"}

\* if result.returncode == 0 (reached only when run() returned)
Succeeded(outcome) == outcome = "ok"

\* variant: the directory is removed on the normal path only
TemporaryDirectoryExit_leak(how) == IF how = "return" THEN "removed" ELSE "exists"

\* leaving "with tempfile.TemporaryDirectory() as temp_dir"
TemporaryDirectoryExit(how) == "removed"

\* the single-page PDF the tool writes for one invocation
PagePdf(svg_file, cmd) == Pdf(<< [content |-> <<[file |-> svg_file]>>, export |-> cmd] >>)

\* merger.append(str(pdf_file)) for every pdf_file, then merger.write
RECURSIVE Merged(_, _)
Merged(files, dir) ==
    IF files = <<>> THEN <<>>
    ELSE dir[Head(files)].pages \o Merged(Tail(files), dir)

\* variant: the last page is kept instead of the first
FallbackSource_last(files) == files[Len(files)]

\* shutil.copy(str(pdf_files[0]), output_pdf)
FallbackSource(files) == files[1]

IK_ListFiles ==
    /\ engine = "inkscape" /\ pc = "start"
    /\ svg_files' = sorted(svg_dir)
    /\ IF NoFiles(sorted(svg_dir))
       THEN /\ log' = log \cup {"No SVG files found"}
            /\ exit_status' = 1
            /\ pc' = "exited"
            /\ UNCHANGED <<lookupVars, inkVars>>
       ELSE LET r == find_inkscape(self_inkscape_path["e1"], which_result,
                                   existing, platform)
            IN  /\ self_inkscape_path' = [self_inkscape_path EXCEPT !["e1"] = r.cache]
                /\ last_call' = [op |-> "find_inkscape", self |-> "e1",
                                 found |-> r.result, available |-> FALSE,
                                 probed |-> r.probed]
                /\ call_parity' = 1 - call_parity
                /\ inkscape_path' = r.result
                /\ pdf_files' = <<>>
                /\ temp_dir' = "exists"
                /\ scratch' = <<>>
                /\ pc' = "convert"
                /\ UNCHANGED <<log, exit_status, invocations, merge_attempted>>
    /\ idx' = 0
    /\ UNCHANGED <<engine, svg_dir, uniform_size, drawings, max_width, max_height,
                   uniform_page_width, uniform_page_height, pdf_canvas,
                   output_pdf, output_before, envVars>>

\* one iteration of "for idx, svg_file in enumerate(svg_files, 1)"
IK_ConvertPage ==
    /\ engine = "inkscape" /\ pc = "convert" /\ idx < Len(svg_files)
    /\ LET svg_file == svg_files[idx + 1]
           temp_pdf == svg_file
           cmd == Cmd(inkscape_path, svg_file, temp_pdf,
                      [uniform_size |-> uniform_size])
       IN  \E outcome \in RunOutcomes(inkscape_path) :
             /\ invocations' = Append(invocations, [cmd |-> cmd, outcome |-> outcome])
             /\ IF outcome \notin {"timeout", "exception"} /\ Succeeded(outcome)
                THEN /\ scratch' = (temp_pdf :> PagePdf(svg_file, cmd)) @@ scratch
                     /\ pdf_files' = Append(pdf_files, temp_pdf)
                     /\ idx' = idx + 1
                     /\ UNCHANGED <<pc, exit_status, log, temp_dir>>
                ELSE /\ log' = log \cup {"error: " \o outcome}
                     /\ exit_status' = 1
                     /\ pc' = "exited"
                     /\ temp_dir' = TemporaryDirectoryExit("SystemExit")
                     /\ scratch' = IF TemporaryDirectoryExit("SystemExit") = "removed"
                                   THEN <<>> ELSE scratch
                     /\ UNCHANGED <<pdf_files, idx>>
    /\ UNCHANGED <<engine, svg_dir, uniform_size, svg_files, drawings, max_width,
                   max_height, uniform_page_width, uniform_page_height,
                   pdf_canvas, output_pdf, output_before, envVars, lookupVars,
                   inkscape_path, merge_attempted>>

\* the merge, its ImportError fallback, and the end of the with block
IK_Merge ==
    /\ engine = "inkscape" /\ pc = "convert" /\ idx = Len(svg_files)
    /\ merge_attempted' = TRUE
    /\ \E merger \in {"available", "unavailable", "error"} :
          \/ /\ merger = "available"
             /\ output_pdf' = Pdf(Merged(pdf_files, scratch))
             /\ log' = log \cup {"Successfully saved PDF"}
             /\ exit_status' = 0 /\ pc' = "returned"
             /\ temp_dir' = TemporaryDirectoryExit("return")
             /\ scratch' = IF TemporaryDirectoryExit("return") = "removed"
                           THEN <<>> ELSE scratch
          \/ /\ merger = "unavailable"
             /\ IF pdf_files # <<>>
                THEN /\ output_pdf' = scratch[FallbackSource(pdf_files)]
                     /\ log' = log \cup {"PyPDF2 not available",
                                         "Only first page saved"}
                ELSE /\ log' = log \cup {"PyPDF2 not available"}
                     /\ UNCHANGED output_pdf
             /\ exit_status' = 0 /\ pc' = "returned"
             /\ temp_dir' = TemporaryDirectoryExit("return")
             /\ scratch' = IF TemporaryDirectoryExit("return") = "removed"
                           THEN <<>> ELSE scratch
          \/ /\ merger = "error"
             /\ \E o \in {output_pdf, Partial} : output_pdf' = o
             /\ exit_status' = "raised" /\ pc' = "raised"
             /\ temp_dir' = TemporaryDirectoryExit("exception")
             /\ scratch' = IF TemporaryDirectoryExit("exception") = "removed"
                           THEN <<>> ELSE scratch
             /\ UNCHANGED log
    /\ UNCHANGED <<engine, svg_dir, uniform_size, svg_files, drawings, max_width,
                   max_height, uniform_page_width, uniform_page_height, idx,
                   pdf_canvas, output_before, envVars, lookupVars,
                   inkscape_path, pdf_files, invocations>>

\* ------------------------------------------------------- specifications
InitLookup ==
    /\ self_inkscape_path = [i \in Instances |-> NoPath]
    /\ last_call = NoCall
    /\ call_parity = 0

InitRun ==
    /\ svg_dir \in SUBSET PageNames
    /\ uniform_size \in BOOLEAN
    /\ output_before \in {Absent, OldFile}
    /\ output_pdf = output_before
    /\ pc = "start"
    /\ svg_files = <<>> /\ drawings = <<>>
    /\ max_width = 0 /\ max_height = 0
    /\ uniform_page_width = 0 /\ uniform_page_height = 0
    /\ idx = 0
    /\ pdf_canvas = None
    /\ exit_status = "none"
    /\ log = {}
    /\ inkscape_path = NoPath
    /\ pdf_files = <<>>
    /\ temp_dir = "none"
    /\ scratch = <<>>
    /\ invocations = <<>>
    /\ merge_attempted = FALSE

\* one call of combine_svgs_to_pdf of either engine
Init ==
    /\ InitRun /\ InitLookup
    /\ engine \in {"inprocess", "inkscape"}
    /\ platform = "linux"
    /\ existing = {}
    /\ which_result \in IF engine = "inkscape" THEN {NoPath, UserPath} ELSE {NoPath}

Next ==
    \/ IP_ListFiles
    \/ IP_Parse
    \/ IP_CreateCanvas
    \/ IP_DrawPage
    \/ IP_Save
    \/ IK_ListFiles
    \/ IK_ConvertPage
    \/ IK_Merge

Spec == Init /\ [][Next]_vars

\* engine instances looking the tool up while the environment changes
InitL ==
    /\ InitRun /\ InitLookup
    /\ engine = "inkscape"
    /\ svg_dir = {} /\ uniform_size = FALSE /\ output_before = Absent
    /\ platform \in Platforms
    /\ existing = {}
    /\ which_result = NoPath

NextL ==
    \/ \E i \in Instances : FindInkscape(i)
    \/ \E i \in Instances : IsAvailable(i)
    \/ PathChange
    \/ InstallChange

SpecLookup == InitL /\ [][NextL]_vars

\* ------------------------------------------------------------ properties
Finished == pc \in {"returned", "exited", "raised"}

\* position of f among the page files, by numeric index
Rank(f) == Cardinality({g \in svg_dir : int(g) <= int(f)})

Survivors == {i \in 1..Len(drawings) : drawings[i] # None}
Failed == {i \in 1..Len(drawings) : drawings[i] = None}

\* position in drawings of the k-th surviving drawing
KthSurvivor(k) ==
    CHOOSE i \in Survivors : Cardinality({j \in Survivors : j <= i}) = k

NoConversionFailed ==
    \A i \in 1..Len(invocations) : invocations[i].outcome = "ok"

\* the sizing policy (padding 10) over parallel sequences of files and
\* drawings, as one page per drawing
PolicyPages(files, ds, uniform) ==
    LET maxW == CHOOSE w \in {ds[i].width : i \in 1..Len(ds)} :
                    \A i \in 1..Len(ds) : ds[i].width <= w
        maxH == CHOOSE h \in {ds[i].height : i \in 1..Len(ds)} :
                    \A i \in 1..Len(ds) : ds[i].height <= h
    IN  [k \in 1..Len(ds) |->
           IF uniform
           THEN [page_width |-> maxW + 20, page_height |-> maxH + 20,
                 content |-> << [file |-> files[k],
                                 x_offset |-> (maxW + 20 - ds[k].width) \div 2,
                                 y_offset |-> (maxH + 20 - ds[k].height) \div 2] >>]
           ELSE [page_width |-> ds[k].width + 20, page_height |-> ds[k].height + 20,
                 content |-> << [file |-> files[k], x_offset |-> 10,
                                 y_offset |-> 10] >>]]

\* C1: when no page fails (and, for the Inkscape engine, the merger is
\* available), a non-empty page set yields exactly one output page per page
\* file, output page i showing the file with the i-th smallest numeric
\* index and nothing else.
C1_OnePagePerFileInNumericOrder ==
    ( /\ pc = "returned" /\ svg_dir # {}
      /\ engine = "inprocess" => Failed = {}
      /\ engine = "inkscape" => "Successfully saved PDF" \in log )
    => /\ output_pdf.kind = "pdf"
       /\ Len(output_pdf.pages) = Cardinality(svg_dir)
       /\ \A i \in 1..Len(output_pdf.pages) :
            /\ Len(output_pdf.pages[i].content) = 1
            /\ output_pdf.pages[i].content[1].file \in svg_dir
            /\ Rank(output_pdf.pages[i].content[1].file) = i

C1_Witness ==
    /\ pc = "returned" /\ engine = "inprocess" /\ Failed = {}
    /\ svg_dir = {<<1>>, <<2>>, <<1, 0>>}
    /\ Len(output_pdf.pages) = 3
    /\ output_pdf.pages[2].content[1].file = <<2>>
    /\ output_pdf.pages[3].content[1].file = <<1, 0>>

\* C2: in the in-process engine, when exactly one of N >= 2 pages fails to
\* parse, the output has N-1 pages, and they are the pages the sizing policy
\* gives for the surviving files and drawings alone, in ascending order.
C2_OneFailedPageDropped ==
    ( /\ engine = "inprocess" /\ pc = "returned"
      /\ Len(drawings) >= 2 /\ Cardinality(Failed) = 1 )
    => LET n == Len(drawings) - 1
           files == [k \in 1..n |-> svg_files[KthSurvivor(k)]]
           ds == [k \in 1..n |-> drawings[KthSurvivor(k)]]
       IN  /\ output_pdf.kind = "pdf"
           /\ Len(output_pdf.pages) = n
           /\ output_pdf.pages = PolicyPages(files, ds, uniform_size)
           /\ \A k \in 1..(n - 1) : int(files[k]) < int(files[k + 1])

C2_Witness ==
    /\ engine = "inprocess" /\ pc = "returned" /\ uniform_size
    /\ Len(drawings) = 3 /\ Failed = {3}
    /\ drawings[1].width # drawings[2].width
    /\ Len(output_pdf.pages) = 2

\* C3: in the in-process engine, when every page of a non-empty page set
\* fails to parse, nothing is written at the output path and the run ends
\* with the failure of an empty page set.
C3_AllFailedNoOutput ==
    ( /\ engine = "inprocess" /\ Finished
      /\ svg_dir # {} /\ Survivors = {} )
    => /\ output_pdf = output_before
       /\ exit_status = 1

\* C4: in the Inkscape engine, a page conversion that exits non-zero, times
\* out or raises ends the run at once with a failure: no later page is
\* converted, no merge is attempted and the output path is left as it was.
C4_AbortOnConversionFailure ==
    ( engine = "inkscape" /\ ~NoConversionFailed )
    => /\ pc = "exited" /\ exit_status = 1
       /\ invocations[Len(invocations)].outcome # "ok"
       /\ \A i \in 1..(Len(invocations) - 1) : invocations[i].outcome = "ok"
       /\ ~merge_attempted
       /\ output_pdf = output_before

C4_Witness ==
    /\ engine = "inkscape" /\ pc = "exited"
    /\ Len(svg_files) = 3 /\ Len(invocations) = 2
    /\ invocations[1].outcome = "ok"
    /\ invocations[2].outcome = "nonzero"
    /\ output_pdf = output_before

\* C5: with no page_<N>.svg file in the directory, either engine fails
\* before parsing a page, running the tool, taking scratch storage or
\* creating a document, and the output path is left as it was.
C5_EmptyPageSetFails ==
    ( svg_dir = {} /\ pc # "start" )
    => /\ pc = "exited" /\ exit_status = 1
       /\ output_pdf = output_before
       /\ drawings = <<>> /\ pdf_canvas = None
       /\ invocations = <<>> /\ temp_dir = "none" /\ ~merge_attempted

C5_Witness ==
    /\ svg_dir = {} /\ pc = "exited" /\ exit_status = 1
    /\ output_before = Absent /\ output_pdf = Absent

\* C6: in the in-process engine every output page has the size and content
\* offset of the sizing policy with padding 10: own size plus 20 and offset
\* (10, 10) in independent mode; the maxima over the surviving drawings plus
\* 20, the same on every page, and a centring offset in uniform mode.
C6_SizingPolicy ==
    ( engine = "inprocess" /\ pc = "returned" )
    => /\ Len(output_pdf.pages) = Cardinality(Survivors)
       /\ \A k \in 1..Len(output_pdf.pages) :
            LET page == output_pdf.pages[k]
                d == drawings[KthSurvivor(k)]
            IN  /\ Len(page.content) = 1
                /\ IF uniform_size
                   THEN /\ \E i \in Survivors : page.page_width = drawings[i].width + 20
                        /\ \E i \in Survivors : page.page_height = drawings[i].height + 20
                        /\ \A i \in Survivors :
                              /\ page.page_width >= drawings[i].width + 20
                              /\ page.page_height >= drawings[i].height + 20
                        /\ 2 * page.content[1].x_offset = page.page_width - d.width
                        /\ 2 * page.content[1].y_offset = page.page_height - d.height
                        /\ page.page_width = output_pdf.pages[1].page_width
                        /\ page.page_height = output_pdf.pages[1].page_height
                   ELSE /\ page.page_width = d.width + 20
                        /\ page.page_height = d.height + 20
                        /\ page.content[1].x_offset = 10
                        /\ page.content[1].y_offset = 10

C6_Witness ==
    /\ engine = "inprocess" /\ pc = "returned" /\ uniform_size
    /\ Len(output_pdf.pages) = 2
    /\ output_pdf.pages[1].content[1].x_offset > 10
    /\ output_pdf.pages[2].content[1].y_offset > 10
    /\ output_pdf.pages[1].content[1].y_offset = 10

\* C7: in the Inkscape engine, when every page converted but the merger is
\* unavailable, the run succeeds, the output is the single page of the file
\* with the lowest numeric index, and the warning that only the first page
\* was saved has been emitted; the output is never written in this
\* situation without that warning.
C7_SinglePageFallback ==
    ( engine = "inkscape" /\ "PyPDF2 not available" \in log )
    => /\ pc = "returned" /\ exit_status = 0
       /\ output_pdf.kind = "pdf"
       /\ Len(output_pdf.pages) = 1
       /\ Len(output_pdf.pages[1].content) = 1
       /\ Rank(output_pdf.pages[1].content[1].file) = 1
       /\ "Only first page saved" \in log

C7_Witness ==
    /\ engine = "inkscape" /\ pc = "returned"
    /\ "PyPDF2 not available" \in log
    /\ Len(pdf_files) = 3
    /\ Len(output_pdf.pages) = 1

\* C8: once a call of the Inkscape engine that took scratch storage has
\* ended - by return, by sys.exit or by a propagating exception - the
\* scratch directory and every per-page PDF in it are gone.
C8_ScratchRemoved ==
    ( engine = "inkscape" /\ Finished /\ temp_dir # "none" )
    => /\ temp_dir = "removed"
       /\ scratch = <<>>

C8_Witness ==
    /\ engine = "inkscape" /\ pc = "raised"
    /\ Len(pdf_files) = 2
    /\ temp_dir = "removed"

\* C9: at every find_inkscape / is_available call on an instance: a cached
\* location is returned as it is without probing; otherwise the search path
\* is asked first and the well-known locations after it; a found location
\* is cached and a failure is not; is_available is true exactly when a
\* location was found; and no other instance's cache changes.
C9_LookupAndCache ==
    [][ call_parity' # call_parity =>
          LET i == last_call'.self
              before == self_inkscape_path[i]
              wellKnown == {q \in Range(common_paths(platform)) : q \in existing}
          IN  /\ before # NoPath =>
                    /\ last_call'.found = before
                    /\ ~last_call'.probed
              /\ before = NoPath =>
                    /\ last_call'.probed
                    /\ which_result # NoPath => last_call'.found = which_result
                    /\ (which_result = NoPath /\ wellKnown = {}) =>
                          last_call'.found = NoPath
                    /\ (which_result = NoPath /\ wellKnown # {}) =>
                          last_call'.found \in wellKnown
              /\ self_inkscape_path'[i] = last_call'.found
              /\ last_call'.op = "is_available" =>
                    (last_call'.available <=> last_call'.found # NoPath)
              /\ \A j \in Instances \ {i} :
                    self_inkscape_path'[j] = self_inkscape_path[j]
      ]_vars

C9_Witness ==
    /\ last_call.op = "is_available" /\ last_call.self = "e1"
    /\ last_call.available /\ ~last_call.probed
    /\ which_result = NoPath /\ existing = {}
    /\ self_inkscape_path["e2"] = NoPath

====
